---- MODULE Spec2Model ----
(***************************************************************************)
(* Model of crates/puffin-cli/src/requirements.rs: the per-source reader   *)
(* RequirementsSpecification::from_source and the multi-source merger      *)
(* RequirementsSpecification::from_sources.                                *)
(*                                                                         *)
(* Option<T> is modelled as a sequence of length at most one: <<>> is None *)
(* and <<v>> is Some(v).  Result<T> is a record with an `ok` flag.         *)
(***************************************************************************)
EXTENDS Integers, Sequences, FiniteSets, TLC

\* Largest total number of sources handed to one from_sources call
\* (requirement-sources + constraint-sources + override-sources).
MaxSources == 3

None == <<>>
Some(v) == <<v>>

(***************************************************************************)
(* External collaborators.                                                 *)
(***************************************************************************)

\* The validator of puffin_normalize on the strings of this model: invalid
\* characters are rejected, valid names are lower-cased and runs of `-_.`
\* become one `-`.  The error carries the offending string.
NormalizeName(s) ==
    CASE s = "dev"       -> [ok |-> TRUE,  value |-> "dev"]
      [] s = "Dev"       -> [ok |-> TRUE,  value |-> "dev"]
      [] s = "Docs"      -> [ok |-> TRUE,  value |-> "docs"]
      [] s = "docs"      -> [ok |-> TRUE,  value |-> "docs"]
      [] s = "zz"        -> [ok |-> TRUE,  value |-> "zz"]
      [] s = "My_Proj"   -> [ok |-> TRUE,  value |-> "my-proj"]
      [] s = "other"     -> [ok |-> TRUE,  value |-> "other"]
      [] OTHER           -> [ok |-> FALSE, value |-> s]

ExtraNameNew(name) == NormalizeName(name)

PackageNameNew(name) == NormalizeName(name)

\* pep508_rs::Requirement::from_str on the command-line strings of the model.
RequirementFromStr(name) ==
    CASE name = "flask"      -> [ok |-> TRUE,  value |-> "flask"]
      [] name = "numpy>=1"   -> [ok |-> TRUE,  value |-> "numpy>=1"]
      [] OTHER               -> [ok |-> FALSE, value |-> name]

(***************************************************************************)
(* Errors.  `kind` is the failure point, `subject` is what the failing     *)
(* callee itself reports (None when it reports no string or path),         *)
(* `context` is what from_source attaches with with_context.  A reported   *)
(* string s is written <<s>>, a reported path is its component sequence.   *)
(***************************************************************************)
NoError == [kind |-> "none", subject |-> None, context |-> None]

Error(kind, subject, context) ==
    [kind |-> kind, subject |-> subject, context |-> context]

(***************************************************************************)
(* Sources and their classification.                                       *)
(***************************************************************************)
Name(name) == [kind |-> "Name", name |-> name, path |-> <<>>]

RequirementsTxt(path) == [kind |-> "RequirementsTxt", name |-> "", path |-> path]

PyprojectToml(path) == [kind |-> "PyprojectToml", name |-> "", path |-> path]

FromString(name) == Name(name)

\* Path::ends_with compares whole components; a path is its sequence of
\* components.
FromPathBuf(path) ==
    IF Len(path) >= 1 /\ path[Len(path)] = "pyproject.toml"
    THEN PyprojectToml(path)
    ELSE RequirementsTxt(path)

(***************************************************************************)
(* The extras filter.                                                      *)
(***************************************************************************)
ExtrasNone == [tag |-> "None", names |-> <<>>]
ExtrasAll == [tag |-> "All", names |-> <<>>]
ExtrasSome(names) == [tag |-> "Some", names |-> names]

SliceContains(slice, name) == \E k \in 1..Len(slice) : slice[k] = name

\* Variant: Some(..) selects every name, as All does.
contains_SomeIsAll(self, name) ==
    CASE self.tag = "All"  -> TRUE
      [] self.tag = "None" -> FALSE
      [] self.tag = "Some" -> TRUE

\* Variant: an empty Some(..) selects every name.
contains_EmptyIsAll(self, name) ==
    CASE self.tag = "All"  -> TRUE
      [] self.tag = "None" -> FALSE
      [] self.tag = "Some" -> self.names = <<>> \/ SliceContains(self.names, name)

contains(self, name) ==
    CASE self.tag = "All"  -> TRUE
      [] self.tag = "None" -> FALSE
      [] self.tag = "Some" -> SliceContains(self.names, name)

(***************************************************************************)
(* RequirementsSpecification.                                              *)
(***************************************************************************)
RequirementsSpecification(project, requirements_, constraints_, overrides_, extras_) ==
    [project |-> project, requirements |-> requirements_,
     constraints |-> constraints_, overrides |-> overrides_, extras |-> extras_]

Default == RequirementsSpecification(None, <<>>, <<>>, <<>>, {})

Ok(spec_, trace_) == [ok |-> TRUE, spec |-> spec_, error |-> NoError, trace |-> trace_]

Err(error_, trace_) == [ok |-> FALSE, spec |-> Default, error |-> error_, trace |-> trace_]

(***************************************************************************)
(* The file system the sources are read from: what RequirementsTxt::parse  *)
(* returns for a path, and what fs::read_to_string followed by             *)
(* toml::from_str returns for a manifest path.                             *)
(***************************************************************************)
Entry(requirement) == [requirement |-> requirement, editable |-> FALSE]

Group(name, optional_requirements) ==
    [name |-> name, optional_requirements |-> optional_requirements]

Project(name, dependencies, optional_dependencies) ==
    [name |-> name, dependencies |-> dependencies,
     optional_dependencies |-> optional_dependencies]

RequirementsTxtParse(path) ==
    CASE path = <<"requirements.txt">> ->
            [ok |-> TRUE,
             requirements |-> <<Entry("r1"), Entry("r2")>>,
             constraints |-> <<"c1">>]
      [] OTHER ->
            [ok |-> FALSE, requirements |-> <<>>, constraints |-> <<>>]

\* `readable` is the outcome of fs::read_to_string, `toml_ok` the outcome of
\* toml::from_str, `project` the Option<Project> of the parsed manifest.
Manifest(readable, toml_ok, project) ==
    [readable |-> readable, toml_ok |-> toml_ok, project |-> project]

ReadManifest(path) ==
    CASE path = <<"a", "pyproject.toml">> ->
            Manifest(TRUE, TRUE, Some(Project("My_Proj", Some(<<"d1">>),
                Some(<<Group("Dev", <<"e1">>), Group("Docs", <<"e2">>),
                       Group("dev", <<"e3">>)>>))))
      [] path = <<"b", "pyproject.toml">> ->
            Manifest(TRUE, TRUE, Some(Project("bad name!", Some(<<"d2">>),
                Some(<<Group("Docs", <<"e2">>)>>))))
      [] path = <<"c", "pyproject.toml">> ->
            Manifest(TRUE, TRUE, Some(Project("bad name!", Some(<<"d1">>),
                Some(<<Group("dev", <<"e1">>), Group("b@d", <<"e3">>)>>))))
      [] path = <<"d", "pyproject.toml">> ->
            Manifest(TRUE, TRUE, Some(Project("other", None,
                Some(<<Group("b@d", <<"e1">>), Group("docs", <<"e2">>)>>))))
      [] path = <<"e", "pyproject.toml">> ->
            Manifest(TRUE, TRUE, None)
      [] path = <<"f", "pyproject.toml">> ->
            Manifest(TRUE, FALSE, None)
      [] OTHER ->
            Manifest(FALSE, FALSE, None)

UnwrapOrDefault(opt) == IF opt = None THEN <<>> ELSE opt[1]

(***************************************************************************)
(* from_source.                                                            *)
(***************************************************************************)
Event(op, arg) == [op |-> op, arg |-> arg]

StripEntries(entries) == [k \in 1..Len(entries) |-> entries[k].requirement]

\* The loop over project.optional_dependencies (lines 116-126).  `st` holds
\* the locals requirements and used_extras, the calls made so far, and the
\* error of the `?` on line 121 once it has been taken.
RECURSIVE OptionalDependenciesLoop(_, _, _)
OptionalDependenciesLoop(groups, extras_, st) ==
    IF groups = <<>> THEN st
    ELSE
        LET name == Head(groups).name
            optional_requirements == Head(groups).optional_requirements
            normalized_name == ExtraNameNew(name)
            called == Append(st.trace, Event("ExtraName::new", name))
        IN  IF ~normalized_name.ok
            THEN [st EXCEPT !.trace = called, !.failed = TRUE,
                            !.error = Error("ExtraName", Some(<<name>>), None)]
            ELSE
                LET tested == Append(called, Event("contains", normalized_name.value))
                IN  IF contains(extras_, normalized_name.value)
                    THEN OptionalDependenciesLoop(Tail(groups), extras_,
                            [st EXCEPT !.trace = tested,
                                       !.used_extras = @ \cup {normalized_name.value},
                                       !.requirements = @ \o optional_requirements])
                    ELSE OptionalDependenciesLoop(Tail(groups), extras_,
                            [st EXCEPT !.trace = tested])

FromName(name) ==
    LET requirement == RequirementFromStr(name)
    IN  IF ~requirement.ok
        THEN Err(Error("Requirement", Some(<<name>>), Some(<<name>>)), <<>>)
        ELSE Ok(RequirementsSpecification(None, <<requirement.value>>, <<>>, <<>>, {}), <<>>)

FromRequirementsTxt(path, current_dir_ok) ==
    IF ~current_dir_ok
    THEN Err(Error("CurrentDir", None, None), <<>>)
    ELSE
        LET requirements_txt == RequirementsTxtParse(path)
        IN  IF ~requirements_txt.ok
            THEN Err(Error("RequirementsTxt", Some(path), None), <<>>)
            ELSE Ok(RequirementsSpecification(None,
                        StripEntries(requirements_txt.requirements),
                        requirements_txt.constraints, <<>>, {}), <<>>)

\* Variant: the project name is parsed before the optional dependencies.
FromPyprojectToml_NameFirst(path, extras_) ==
    LET file == ReadManifest(path)
    IN  IF ~file.readable
        THEN Err(Error("ReadToString", Some(path), None), <<>>)
        ELSE IF ~file.toml_ok
        THEN Err(Error("Toml", None, Some(path)), <<>>)
        ELSE IF file.project = None
        THEN Ok(RequirementsSpecification(None, <<>>, <<>>, <<>>, {}), <<>>)
        ELSE
            LET project == file.project[1]
                project_name == PackageNameNew(project.name)
                called == <<Event("PackageName::new", project.name)>>
                st0 == [requirements |-> UnwrapOrDefault(project.dependencies),
                        used_extras |-> {}, trace |-> called,
                        failed |-> FALSE, error |-> NoError]
                st1 == IF extras_.tag # "None"
                       THEN OptionalDependenciesLoop(
                                UnwrapOrDefault(project.optional_dependencies),
                                extras_, st0)
                       ELSE st0
            IN  IF ~project_name.ok
                THEN Err(Error("PackageName", Some(<<project.name>>), Some(path)), called)
                ELSE IF st1.failed
                THEN Err(st1.error, st1.trace)
                ELSE Ok(RequirementsSpecification(Some(project_name.value),
                            st1.requirements, <<>>, <<>>, st1.used_extras), st1.trace)

FromPyprojectToml(path, extras_) ==
    LET file == ReadManifest(path)
    IN  IF ~file.readable
        THEN Err(Error("ReadToString", Some(path), None), <<>>)
        ELSE IF ~file.toml_ok
        THEN Err(Error("Toml", None, Some(path)), <<>>)
        ELSE IF file.project = None
        THEN Ok(RequirementsSpecification(None, <<>>, <<>>, <<>>, {}), <<>>)
        ELSE
            LET project == file.project[1]
                st0 == [requirements |-> UnwrapOrDefault(project.dependencies),
                        used_extras |-> {}, trace |-> <<>>,
                        failed |-> FALSE, error |-> NoError]
                st1 == IF extras_.tag # "None"
                       THEN OptionalDependenciesLoop(
                                UnwrapOrDefault(project.optional_dependencies),
                                extras_, st0)
                       ELSE st0
                project_name == PackageNameNew(project.name)
                called == Append(st1.trace, Event("PackageName::new", project.name))
            IN  IF st1.failed
                THEN Err(st1.error, st1.trace)
                ELSE IF ~project_name.ok
                THEN Err(Error("PackageName", Some(<<project.name>>), Some(path)), called)
                ELSE Ok(RequirementsSpecification(Some(project_name.value),
                            st1.requirements, <<>>, <<>>, st1.used_extras), called)

\* Variant: a requirements file records the requested extras as used.
from_source_ExtrasOnTxt(source, extras_, current_dir_ok) ==
    CASE source.kind = "Name" -> FromName(source.name)
      [] source.kind = "RequirementsTxt" ->
            LET r == FromRequirementsTxt(source.path, current_dir_ok)
            IN  IF r.ok
                THEN [r EXCEPT !.spec.extras =
                        {extras_.names[k] : k \in 1..Len(extras_.names)}]
                ELSE r
      [] source.kind = "PyprojectToml" -> FromPyprojectToml(source.path, extras_)

from_source(source, extras_, current_dir_ok) ==
    CASE source.kind = "Name" -> FromName(source.name)
      [] source.kind = "RequirementsTxt" ->
            FromRequirementsTxt(source.path, current_dir_ok)
      [] source.kind = "PyprojectToml" -> FromPyprojectToml(source.path, extras_)


(***************************************************************************)
(* from_sources: the three loop bodies, and the call as a whole.           *)
(***************************************************************************)

\* Variant: a source's requirements are put in front of the accumulator's.
MergeRequirements_Prepend(acc, source) ==
    [project |-> IF acc.project = None THEN source.project ELSE acc.project,
     requirements |-> source.requirements \o acc.requirements,
     constraints |-> acc.constraints \o source.constraints,
     overrides |-> acc.overrides \o source.overrides,
     extras |-> acc.extras \cup source.extras]

\* Variant: the latest project name discovered is kept.
MergeRequirements_LastWins(acc, source) ==
    [project |-> IF source.project # None THEN source.project ELSE acc.project,
     requirements |-> acc.requirements \o source.requirements,
     constraints |-> acc.constraints \o source.constraints,
     overrides |-> acc.overrides \o source.overrides,
     extras |-> acc.extras \cup source.extras]

\* Lines 159-167: the body of the loop over `requirements`.
MergeRequirements(acc, source) ==
    [project |-> IF acc.project = None THEN source.project ELSE acc.project,
     requirements |-> acc.requirements \o source.requirements,
     constraints |-> acc.constraints \o source.constraints,
     overrides |-> acc.overrides \o source.overrides,
     extras |-> acc.extras \cup source.extras]

\* Variant: only the source's own constraints are taken as constraints.
MergeConstraints_OwnOnly(acc, source) ==
    [acc EXCEPT !.constraints = @ \o source.constraints]

\* Lines 173-175: the body of the loop over `constraints`.
MergeConstraints(acc, source) ==
    [acc EXCEPT !.constraints =
        @ \o source.requirements \o source.constraints \o source.overrides]

\* Variant: the source's constraints stay constraints.
MergeOverrides_KeepConstraints(acc, source) ==
    [acc EXCEPT !.overrides = @ \o source.requirements \o source.overrides,
                !.constraints = @ \o source.constraints]

\* Lines 181-183: the body of the loop over `overrides`.
MergeOverrides(acc, source) ==
    [acc EXCEPT !.overrides =
        @ \o source.requirements \o source.constraints \o source.overrides]

Pending == [spec |-> None, error |-> None]

Returned(spec_) == [spec |-> Some(spec_), error |-> None]

Failed(error_) == [spec |-> None, error |-> Some(error_)]

LoopBody(loop, acc, source) ==
    CASE loop = "requirements" -> MergeRequirements(acc, source)
      [] loop = "constraints"  -> MergeConstraints(acc, source)
      [] loop = "overrides"    -> MergeOverrides(acc, source)

\* One `for source in sources` loop, started with the outcome `acc` of what
\* ran before it: an Err leaves through `?`.
RECURSIVE ForEach(_, _, _, _, _)
ForEach(loop, sources, acc, extras_, current_dir_ok_) ==
    IF acc.error # None \/ sources = <<>> THEN acc
    ELSE
        LET r == from_source(Head(sources), extras_, current_dir_ok_)
        IN  IF ~r.ok THEN Failed(r.error)
            ELSE ForEach(loop, Tail(sources),
                         Returned(LoopBody(loop, acc.spec[1], r.spec)),
                         extras_, current_dir_ok_)

\* The whole call, as a function of its arguments and the environment.
from_sources(requirements_, constraints_, overrides_, extras_, current_dir_ok_) ==
    ForEach("overrides", overrides_,
        ForEach("constraints", constraints_,
            ForEach("requirements", requirements_, Returned(Default),
                    extras_, current_dir_ok_),
            extras_, current_dir_ok_),
        extras_, current_dir_ok_)

(***************************************************************************)
(* One from_sources call as a state machine, one loop iteration per step.  *)
(***************************************************************************)
VARIABLES
    requirements,     \* argument: the requirement-sources
    constraints,      \* argument: the constraint-sources
    overrides,        \* argument: the override-sources
    extras,           \* argument: the extras filter
    current_dir_ok,   \* whether std::env::current_dir() succeeds
    spec,             \* the accumulator `spec`
    n,                \* number of sources read so far, over the three loops
    read,             \* what the latest from_source call returned, if any
    reads,            \* the sources handed to from_source, in call order
    result            \* what the call returned: Ok(spec) or Err(error)

vars == <<requirements, constraints, overrides, extras, current_dir_ok,
          spec, n, read, reads, result>>

args == <<requirements, constraints, overrides, extras, current_dir_ok>>

Strings == {"flask", "not a valid!!!"}

Paths == {<<"requirements.txt">>,
          <<"a", "pyproject.toml">>, <<"b", "pyproject.toml">>,
          <<"c", "pyproject.toml">>, <<"d", "pyproject.toml">>,
          <<"e", "pyproject.toml">>}

Pool == {FromString(s) : s \in Strings} \cup {FromPathBuf(p) : p \in Paths}

Filters == {ExtrasNone, ExtrasAll, ExtrasSome(<<>>), ExtrasSome(<<"dev", "zz">>)}

BoundedSeq(S, k) == UNION {[1..m -> S] : m \in 0..k}

Running == result = Pending

Init ==
    /\ \E all \in BoundedSeq(Pool, MaxSources) :
         \E a \in 0..Len(all) : \E b \in a..Len(all) :
            /\ requirements = SubSeq(all, 1, a)
            /\ constraints = SubSeq(all, a + 1, b)
            /\ overrides = SubSeq(all, b + 1, Len(all))
    /\ extras \in Filters
    /\ current_dir_ok \in BOOLEAN
    /\ spec = Default
    /\ n = 0
    /\ read = None
    /\ reads = <<>>
    /\ result = Pending

\* Variant: a source that fails to read is skipped.
Step_SkipFailed(source, r, merged) ==
    /\ reads' = Append(reads, source)
    /\ read' = Some(r)
    /\ n' = n + 1
    /\ spec' = IF r.ok THEN merged ELSE spec
    /\ result' = result
    /\ UNCHANGED args

\* `let source = Self::from_source(source, extras)?;` followed by a loop
\* body that leaves `merged` in the accumulator: on Err the call returns the
\* error at once and the body is not run.
Step(source, r, merged) ==
    /\ reads' = Append(reads, source)
    /\ read' = Some(r)
    /\ n' = n + 1
    /\ IF r.ok
       THEN /\ spec' = merged
            /\ result' = result
       ELSE /\ spec' = spec
            /\ result' = Failed(r.error)
    /\ UNCHANGED args

ReadRequirementsSource ==
    /\ Running
    /\ n < Len(requirements)
    /\ LET source == requirements[n + 1]
           r == from_source(source, extras, current_dir_ok)
       IN  Step(source, r, MergeRequirements(spec, r.spec))

ReadConstraintsSource ==
    /\ Running
    /\ n >= Len(requirements)
    /\ n < Len(requirements) + Len(constraints)
    /\ LET source == constraints[n - Len(requirements) + 1]
           r == from_source(source, extras, current_dir_ok)
       IN  Step(source, r, MergeConstraints(spec, r.spec))

ReadOverridesSource ==
    /\ Running
    /\ n >= Len(requirements) + Len(constraints)
    /\ n < Len(requirements) + Len(constraints) + Len(overrides)
    /\ LET source == overrides[n - Len(requirements) - Len(constraints) + 1]
           r == from_source(source, extras, current_dir_ok)
       IN  Step(source, r, MergeOverrides(spec, r.spec))

\* Line 186: Ok(spec).
Return ==
    /\ Running
    /\ n = Len(requirements) + Len(constraints) + Len(overrides)
    /\ result' = Returned(spec)
    /\ UNCHANGED <<args, spec, n, read, reads>>

Next ==
    \/ ReadRequirementsSource
    \/ ReadConstraintsSource
    \/ ReadOverridesSource
    \/ Return

Spec == Init /\ [][Next]_vars

(***************************************************************************)
(* Vocabulary of the properties.                                           *)
(***************************************************************************)
AllSources == requirements \o constraints \o overrides

ReadOf(source) == from_source(source, extras, current_dir_ok)

Outcome(r) == [ok |-> r.ok, spec |-> r.spec, error |-> r.error]

Succeeded == result.spec # None

LastSource == reads[Len(reads)]

LastRead == read[1]

RECURSIVE Flatten(_)
Flatten(seqs) == IF seqs = <<>> THEN <<>> ELSE Head(seqs) \o Flatten(Tail(seqs))

\* What each source of a list yields on its own, as a list of lists.
OwnRequirements(sources) == [k \in 1..Len(sources) |-> ReadOf(sources[k]).spec.requirements]
OwnConstraints(sources) == [k \in 1..Len(sources) |-> ReadOf(sources[k]).spec.constraints]
Collapsed(sources) ==
    [k \in 1..Len(sources) |->
        ReadOf(sources[k]).spec.requirements \o ReadOf(sources[k]).spec.constraints
            \o ReadOf(sources[k]).spec.overrides]


RECURSIVE FirstProject(_)
FirstProject(sources) ==
    IF sources = <<>> THEN None
    ELSE IF ReadOf(Head(sources)).ok /\ ReadOf(Head(sources)).spec.project # None
         THEN ReadOf(Head(sources)).spec.project
         ELSE FirstProject(Tail(sources))

(***************************************************************************)
(* Properties of the merge.                                                *)
(***************************************************************************)

\* C1: the call returns a Spec or an error, never both; sources are read in
\* the order requirements, constraints, overrides, and only while every
\* earlier read succeeded; an error returned is the error of the first
\* failing source in that order, and nothing of the accumulator is returned
\* with it; a Spec is returned only when every source was read successfully.
C1_FailFast ==
    /\ ~(result.spec # None /\ result.error # None)
    /\ reads = SubSeq(AllSources, 1, n)
    /\ result.error # None =>
          /\ n >= 1
          /\ \A k \in 1..(n - 1) : ReadOf(AllSources[k]).ok
          /\ ~ReadOf(AllSources[n]).ok
          /\ result = Failed(ReadOf(AllSources[n]).error)
    /\ result.spec # None =>
          /\ n = Len(AllSources)
          /\ \A k \in 1..n : ReadOf(AllSources[k]).ok

\* A constraint- or override-source failed after the accumulator was filled,
\* with a source still unread behind it.
C1_Witness ==
    /\ result.error # None
    /\ n > Len(requirements)
    /\ n < Len(AllSources)
    /\ spec # Default

\* C2: after a successful merge the requirements are the concatenation, in
\* list order, of what each requirement-source yields as requirements;
\* constraint- and override-sources add nothing to them.
C2_RequirementOrder ==
    Succeeded =>
        result.spec[1].requirements = Flatten(OwnRequirements(requirements))

\* Two requirement-sources with different non-empty requirements, and a
\* constraint- or override-source that yields requirements of its own.
C2_Witness ==
    /\ Succeeded
    /\ Len(requirements) = 2
    /\ OwnRequirements(requirements)[1] # <<>>
    /\ OwnRequirements(requirements)[2] # <<>>
    /\ OwnRequirements(requirements)[1] # OwnRequirements(requirements)[2]
    /\ Flatten(OwnRequirements(constraints \o overrides)) # <<>>

\* C3: once the accumulator's project is set no step changes it, and the
\* project returned is that of the earliest requirement-source yielding one
\* (unset if none does); constraint- and override-sources never set it.
C3_ProjectFirstWins ==
    /\ [](Succeeded => result.spec[1].project = FirstProject(requirements))
    /\ [][spec.project # None => spec'.project = spec.project]_vars

\* Two requirement-sources with different project names and a third manifest
\* with a project name in the constraint or the override list.
C3_Witness ==
    /\ Succeeded
    /\ Len(requirements) = 2
    /\ ReadOf(requirements[1]).spec.project # None
    /\ ReadOf(requirements[2]).spec.project # None
    /\ ReadOf(requirements[1]).spec.project # ReadOf(requirements[2]).spec.project
    /\ Len(constraints \o overrides) = 1
    /\ ReadOf((constraints \o overrides)[1]).spec.project # None

\* C4: after a successful merge the constraints are the constraints of the
\* requirement-sources followed, per constraint-source in list order, by
\* that source's requirements, constraints and overrides; the requirements,
\* project and extras are those of the same merge without constraint-sources.
C4_ConstraintCollapsing ==
    Succeeded =>
        LET out == result.spec[1]
            without == from_sources(requirements, <<>>, overrides,
                                    extras, current_dir_ok).spec[1]
        IN  /\ out.constraints =
                  Flatten(OwnConstraints(requirements)) \o Flatten(Collapsed(constraints))
            /\ out.requirements = without.requirements
            /\ out.project = without.project
            /\ out.extras = without.extras

\* A requirement-source with constraints of its own, then two
\* constraint-sources, one yielding both requirements and constraints.
C4_Witness ==
    /\ Succeeded
    /\ Flatten(OwnConstraints(requirements)) # <<>>
    /\ Len(constraints) = 2
    /\ Collapsed(constraints)[1] # Collapsed(constraints)[2]
    /\ \E k \in 1..2 :
          /\ OwnRequirements(constraints)[k] # <<>>
          /\ OwnConstraints(constraints)[k] # <<>>

\* C10: no single-source read yields overrides; after a successful merge the
\* overrides are, per override-source in list order, that source's
\* requirements, constraints and overrides (so they are empty when the
\* override list is), and the requirements, constraints, project and extras
\* are those of the same merge without override-sources.
C10_OverrideProvenance ==
    /\ (read # None /\ LastRead.ok) => LastRead.spec.overrides = <<>>
    /\ Succeeded =>
        LET out == result.spec[1]
            without == from_sources(requirements, constraints, <<>>,
                                    extras, current_dir_ok).spec[1]
        IN  /\ out.overrides = Flatten(Collapsed(overrides))
            /\ overrides = <<>> => out.overrides = <<>>
            /\ out.requirements = without.requirements
            /\ out.constraints = without.constraints
            /\ out.project = without.project
            /\ out.extras = without.extras

\* A requirement-source, then two different override-sources, one yielding
\* both requirements and constraints.
C10_Witness ==
    /\ Succeeded
    /\ Len(requirements) = 1
    /\ Len(overrides) = 2
    /\ Collapsed(overrides)[1] # Collapsed(overrides)[2]
    /\ \E k \in 1..2 :
          /\ OwnRequirements(overrides)[k] # <<>>
          /\ OwnConstraints(overrides)[k] # <<>>


(***************************************************************************)
(* Properties of a single read.                                            *)
(***************************************************************************)
HasProject(source) ==
    /\ source.kind = "PyprojectToml"
    /\ ReadManifest(source.path).readable
    /\ ReadManifest(source.path).toml_ok
    /\ ReadManifest(source.path).project # None

ProjectOf(source) == ReadManifest(source.path).project[1]

GroupsOf(source) == UnwrapOrDefault(ProjectOf(source).optional_dependencies)

InvalidGroups(source) ==
    {k \in 1..Len(GroupsOf(source)) : ~ExtraNameNew(GroupsOf(source)[k].name).ok}

ProjectNameValid(source) == PackageNameNew(ProjectOf(source).name).ok

HasInvalidGroup(source) == HasProject(source) /\ InvalidGroups(source) # {}

Identifier(source) == IF source.kind = "Name" THEN <<source.name>> ELSE source.path

NamesSource(error, source) ==
    \/ error.subject = Some(Identifier(source))
    \/ error.context = Some(Identifier(source))

CountOp(trace, op) == Cardinality({k \in 1..Len(trace) : trace[k].op = op})

\* C5: a manifest with a project table, a valid project name and only valid
\* group names reads successfully; its requirements are the base
\* dependencies followed by the requirements of the selected groups in
\* table order, where All selects every group, None selects none and
\* Some(S) selects the groups whose normalized name is in S; its extras are
\* the normalized names of the selected groups (for Some(S): S intersected
\* with the declared names, so an undeclared name adds nothing and no error).
C5_ExtrasFiltering ==
    (/\ read # None
     /\ HasProject(LastSource)
     /\ ProjectNameValid(LastSource)
     /\ InvalidGroups(LastSource) = {}) =>
        LET groups == GroupsOf(LastSource)
            S == {extras.names[k] : k \in 1..Len(extras.names)}
            Normalized(g) == ExtraNameNew(g.name).value
            declared == {Normalized(groups[k]) : k \in 1..Len(groups)}
            Selects(g) ==
                \/ extras.tag = "All"
                \/ extras.tag = "Some" /\ Normalized(g) \in S
            selected == SelectSeq(groups, Selects)
        IN  /\ LastRead.ok
            /\ LastRead.spec.requirements =
                  UnwrapOrDefault(ProjectOf(LastSource).dependencies)
                    \o Flatten([k \in 1..Len(selected) |-> selected[k].optional_requirements])
            /\ extras.tag = "All" => LastRead.spec.extras = declared
            /\ extras.tag = "None" => LastRead.spec.extras = {}
            /\ extras.tag = "Some" => LastRead.spec.extras = S \cap declared

\* Manifest `a` read under Some(dev, zz): groups `Dev` and `dev` are taken,
\* `Docs` is not, and `zz` names no group.
C5_Witness ==
    /\ read # None
    /\ LastSource = PyprojectToml(<<"a", "pyproject.toml">>)
    /\ extras = ExtrasSome(<<"dev", "zz">>)
    /\ LastRead.spec.requirements = <<"d1", "e1", "e3">>
    /\ LastRead.spec.extras = {"dev"}

InvalidProjectNameRead ==
    /\ read # None
    /\ HasProject(LastSource)
    /\ ~ProjectNameValid(LastSource)

\* C6 as stated: reading a manifest with an invalid project name fails with
\* the project-name error, no optional-dependency group having been
\* normalized or tested before, and the merge fails with that error.
C6_NameErrorBeforeExtras ==
    InvalidProjectNameRead =>
        /\ ~LastRead.ok
        /\ LastRead.error.kind = "PackageName"
        /\ CountOp(LastRead.trace, "ExtraName::new") = 0
        /\ CountOp(LastRead.trace, "contains") = 0
        /\ result = Failed(LastRead.error)

\* C6 amended: reading a manifest with an invalid project name fails and the
\* merge fails with that read's error.  The project name is parsed after
\* the optional dependencies: under None no group is normalized or tested
\* and the error is the project-name error; under All or Some the groups
\* are normalized and tested first, up to the first invalid group name, and
\* the error is the project-name error only if every group name is valid,
\* else the extra-name error of the first invalid group.
C6_NameErrorAfterExtras ==
    InvalidProjectNameRead =>
        LET groups == GroupsOf(LastSource)
            bad == InvalidGroups(LastSource)
            firstBad == CHOOSE k \in bad : \A m \in bad : k <= m
            trace == LastRead.trace
            nameError == Error("PackageName", Some(<<ProjectOf(LastSource).name>>),
                               Some(LastSource.path))
        IN  /\ ~LastRead.ok
            /\ result = Failed(LastRead.error)
            /\ extras.tag = "None" =>
                  /\ LastRead.error = nameError
                  /\ trace = <<Event("PackageName::new", ProjectOf(LastSource).name)>>
            /\ (extras.tag # "None" /\ bad = {}) =>
                  /\ LastRead.error = nameError
                  /\ CountOp(trace, "ExtraName::new") = Len(groups)
                  /\ CountOp(trace, "contains") = Len(groups)
                  /\ Len(trace) = 2 * Len(groups) + 1
                  /\ trace[Len(trace)].op = "PackageName::new"
            /\ (extras.tag # "None" /\ bad # {}) =>
                  /\ LastRead.error =
                        Error("ExtraName", Some(<<groups[firstBad].name>>), None)
                  /\ CountOp(trace, "ExtraName::new") = firstBad
                  /\ CountOp(trace, "contains") = firstBad - 1
                  /\ CountOp(trace, "PackageName::new") = 0

\* Manifest `b` (invalid project name, one valid group) read under a filter
\* other than None: the group is normalized and tested, then the name fails.
C6_Witness ==
    /\ InvalidProjectNameRead
    /\ extras.tag # "None"
    /\ LastRead.error.kind = "PackageName"
    /\ Len(LastRead.trace) = 3
    /\ LastRead.trace[1].op = "ExtraName::new"
    /\ result.error # None

\* C7: an error of a read is returned by the call as it is, and it carries
\* the literal string or the path of the source that failed.
C7_ErrorNamesSource ==
    (read # None /\ ~LastRead.ok) =>
        /\ result = Failed(LastRead.error)
        /\ NamesSource(LastRead.error, LastSource)

\* C8: reading a requirements file gives the same outcome under every
\* extras filter, and a successful read has no project, no overrides and no
\* extras.
C8_FilterIgnoredForRequirementsTxt ==
    (read # None /\ LastSource.kind = "RequirementsTxt") =>
        /\ \A F \in Filters :
              Outcome(from_source(LastSource, F, current_dir_ok)) = Outcome(LastRead)
        /\ LastRead.ok =>
              /\ LastRead.spec.project = None
              /\ LastRead.spec.overrides = <<>>
              /\ LastRead.spec.extras = {}

\* A requirements file with requirements and constraints read under a
\* filter that names extras.
C8_Witness ==
    /\ read # None
    /\ LastSource.kind = "RequirementsTxt"
    /\ extras = ExtrasSome(<<"dev", "zz">>)
    /\ LastRead.ok
    /\ LastRead.spec.requirements # <<>>
    /\ LastRead.spec.constraints # <<>>

ExtraNames == {"dev", "docs", "zz", "my-proj"}

ContainsNothing(filter) == \A name \in ExtraNames : ~contains(filter, name)

\* C9 as stated: Some(<<>>) and None select no name, and under Some(<<>>)
\* every read and every merge has the outcome it has under None.
C9_SomeEmptyIsNone ==
    /\ ContainsNothing(ExtrasSome(<<>>)) /\ ContainsNothing(ExtrasNone)
    /\ (extras = ExtrasSome(<<>>) /\ read # None) =>
          Outcome(LastRead) = Outcome(from_source(LastSource, ExtrasNone, current_dir_ok))
    /\ (extras = ExtrasSome(<<>>) /\ ~Running) =>
          result = from_sources(requirements, constraints, overrides,
                                ExtrasNone, current_dir_ok)

\* C9 amended: Some(<<>>) and None select no name; under Some(<<>>) a read
\* has the outcome it has under None unless the source is a manifest whose
\* project table declares a group with an invalid name, and a merge none of
\* whose sources is such a manifest has the outcome it has under None.  Such
\* a manifest fails under Some(<<>>) with the extra-name error, which it
\* never does under None.
C9_SomeEmptyIsNoneOnValidGroups ==
    /\ ContainsNothing(ExtrasSome(<<>>)) /\ ContainsNothing(ExtrasNone)
    /\ (extras = ExtrasSome(<<>>) /\ read # None) =>
          LET underNone == from_source(LastSource, ExtrasNone, current_dir_ok)
          IN  IF HasInvalidGroup(LastSource)
              THEN /\ LastRead.error.kind = "ExtraName"
                   /\ underNone.error.kind # "ExtraName"
              ELSE Outcome(LastRead) = Outcome(underNone)
    /\ (/\ extras = ExtrasSome(<<>>)
        /\ ~Running
        /\ \A k \in 1..Len(AllSources) : ~HasInvalidGroup(AllSources[k])) =>
          result = from_sources(requirements, constraints, overrides,
                                ExtrasNone, current_dir_ok)

\* A merge under Some(<<>>) that read manifest `a`, which declares groups.
C9_Witness ==
    /\ extras = ExtrasSome(<<>>)
    /\ Succeeded
    /\ \E k \in 1..Len(requirements) :
          /\ HasProject(requirements[k])
          /\ GroupsOf(requirements[k]) # <<>>
    /\ result.spec[1].requirements # <<>>
    /\ result.spec[1].extras = {}


====
